---- MODULE Spec2Model ----
(***************************************************************************)
(* python-batch-runner: the execution loop of PyRunner.execute            *)
(* (src/pyrunner/core/pyrunner.py), the per-node process lifecycle of     *)
(* ExecutionNode (src/pyrunner/core/node.py) and the file-marker signals  *)
(* of SignalHandler (src/pyrunner/core/signal.py).                        *)
(*                                                                         *)
(* Time is kept relative: every "x_until" timestamp of the source is held *)
(* as the number of tick periods still to pass before time.time() reaches *)
(* it, and a node's runtime as the periods passed since _start_time.      *)
(* One period passes at the sleep that ends a tick (tickrate = 1).        *)
(***************************************************************************)
EXTENDS Integers, FiniteSets, Sequences, TLC

\* ---------------------------------------------------------------- bounds
NumNodes == 3
MaxAttempts == 2
MaxRetryWait == 1
MaxTimeBetweenTasks == 1
MaxProcs == 2
MaxRevives == 1
MaxRuns == 2
MaxLaunches == 3
MaxTimeout == 1
SaveInterval == 1
NumInvocations == 3
TickPeriod == 2
MaxSaves == 2
NumSigProcs == 2
NumKeys == 2
NumValues == 2
NumCtxWorkers == 2
MaxWrites == 2

\* ------------------------------------------------------- program constants
STATUS_COMPLETED == "C"
STATUS_PENDING == "P"
STATUS_RUNNING == "R"
STATUS_FAILED == "F"
STATUS_DEFAULTED == "D"
STATUS_NORUN == "N"
STATUS_ABORTED == "A"

SIG_ABORT == "sig.abort"
SIG_PULSE == "sig.pulse"
SIG_REVIVE == "sig.revive"

\* _valid_signals, less SIG_PAUSE, which no code emits or consumes
ValidSignals == {SIG_ABORT, SIG_PULSE, SIG_REVIVE}

\* ExecutionNode.__init__: the implicit root has id -1
ROOT_ID == 0 - 1
\* ExecutionNode.exec_interval
exec_interval == 1
\* ExecutionNode.poll: no process was ever created for the node
RC_NO_PROC == 901
\* ExecutionNode.terminate
RC_TERMINATED == 907
\* "still running" (poll returns None)
RC_NONE == 0 - 999

\* what shared_dict.get(key, None) returns for a key that is not there
MISSING == 0

Statuses ==
  { STATUS_COMPLETED, STATUS_PENDING, STATUS_RUNNING, STATUS_FAILED,
    STATUS_DEFAULTED, STATUS_NORUN, STATUS_ABORTED }

\* the codes a worker leaves in its shared retcode value when it exits
WorkerCodes == {0, 1}

\* Worker classes: "any" stands for an arbitrary class, whose import or
\* construction may raise and whose run may end with any code; SayHello
\* returns 0 and FailMe a positive code on every run; FailTwice returns a
\* positive code on the first two attempts of its node and 0 afterwards;
\* FailFirstRun returns a positive code in the first call of execute() and 0
\* in later calls
WorkerKinds == {"any", "SayHello", "FailMe", "FailTwice", "FailFirstRun"}

\* the invocations of the program for one job name
Invocations == 1..NumInvocations

\* the sleep of dup_proc_is_running, 1.1 s, against the longest wait_interval
\* of the loop, 1.0 s at tickrate 1
DupWait == TickPeriod + 1

VARIABLES
  parent_nodes,        \* node -> ids of its parents ({-1}: only the root)
  max_attempts,        \* node -> ExecutionNode.max_attempts
  retry_wait_time,     \* node -> ExecutionNode.retry_wait_time
  timeout,             \* node -> ExecutionNode.timeout (0 stands for inf)
  worker,              \* node -> the Worker class named by module/worker
  max_procs,           \* config launch_params.max_procs
  time_between_tasks,  \* config launch_params.time_between_tasks
  register,            \* NodeRegister.register: status -> set of nodes
  attempts,            \* node -> ExecutionNode._attempts
  node_wait,           \* node -> periods until ExecutionNode._wait_until
  started,             \* node -> ExecutionNode._start_time is set
  elapsed,             \* node -> periods since _start_time (saturating)
  proc,                \* node -> "none" | "alive" | "dead" | "killed" (_proc)
  retcode,             \* node -> Worker._retcode.value of the worker instance
  wait_until,          \* periods until PyRunner._wait_until
  signals,             \* the marker files present
  pc,                  \* position of the controller in execute()
  todo,                \* the rest of the copy a for loop iterates over
  result,              \* value returned by execute()
  error,               \* exception that left execute(), "none" if none
  ctllog,              \* the graph checkpoint file: "absent" or who wrote it
  last_save,           \* periods until the next periodic save is due
  aborted_run,         \* the abort path was taken in this run
  revives,             \* REVIVE signals emitted so far
  runs,                \* calls of execute() so far
  launches,            \* node -> processes spawned or attempted (saturating)
  restart,             \* PyRunner.restart of the process that runs execute()
  perm,                \* checkpoint path -> the file at that path
  tmp,                 \* checkpoint path -> the file at that path + ".tmp"
  save_pc,             \* the file save_state works on and its last operation
  saves,               \* calls of save_state that ran to their end (saturating)
  inv,                 \* invocation -> its position from startup to exit
  sleep_left,          \* invocation -> time left of the sleep of the pulse check
  next_tick,           \* invocation -> time to the top of its next tick
  uptime,              \* invocation -> time since PyRunner.start_time (saturating)
  impl,                \* method of the Worker class of node 1 -> what it does
  wpos,                \* position of the worker process in protected_run
  calls,               \* the methods protected_run has called, in order
  poll_rc,             \* value returned by the blocking poll of node 1
  user_hooks,          \* job hooks the application has registered a function for
  hook_func,           \* job hook -> the function PyRunner._on_<hook>_func holds
  invoked,             \* the job hook functions called after the loop, in order
  sig_op,              \* process -> its SignalHandler call under way
  sig_ret,             \* process -> outcome of its last SignalHandler call
  shared_dict,         \* Context.shared_dict: key -> value
  shared_queue,        \* Context.shared_queue: the keys requested
  getter,              \* worker -> its Context.get call
  last_write,          \* key -> the latest set of that key and its writers
  interactive,         \* Context.interactive
  since_launch,        \* time since the latest worker launch (saturating)
  allow_duplicate_jobs, \* whether --allow-duplicate-jobs was given
  num_nodes,           \* the number of nodes of the job specification
  exec_disable_list    \* the nodes excluded before the run (--norun)

\* the ids of the nodes of the job specification
Nodes == 1..num_nodes

vars ==
  << parent_nodes, max_attempts, retry_wait_time, timeout, worker, max_procs,
     time_between_tasks, register, attempts, node_wait, started, elapsed,
     proc, retcode, wait_until, signals, pc, todo, result, error, ctllog,
     last_save, aborted_run, revives, runs, launches, restart, perm, tmp,
     save_pc, saves, inv, sleep_left, next_tick, uptime, impl, wpos, calls,
     poll_rc, user_hooks, hook_func, invoked, sig_op, sig_ret, shared_dict,
     shared_queue, getter, last_write, interactive, since_launch,
     allow_duplicate_jobs, exec_disable_list, num_nodes >>

\* the positions of the invocations of the job
startup_vars == << inv, sleep_left, next_tick, uptime >>

\* the progress of a save_state that is followed file operation by file
\* operation
save_vars == << tmp, save_pc, saves >>

\* the parts of the program followed on their own: a worker process and the
\* blocking poll of its node, the job lifecycle hooks, the calls of
\* SignalHandler file operation by file operation, and the Context
lib_vars ==
  << impl, wpos, calls, poll_rc, user_hooks, hook_func, invoked, sig_op,
     sig_ret, shared_dict, shared_queue, getter, last_write, interactive >>

config_vars ==
  << parent_nodes, max_attempts, retry_wait_time, timeout, worker, max_procs,
     time_between_tasks, allow_duplicate_jobs, exec_disable_list,
     num_nodes >>

\* ------------------------------------------------------------ the register
pending_nodes == register[STATUS_PENDING]
running_nodes == register[STATUS_RUNNING]
completed_nodes == register[STATUS_COMPLETED]
failed_nodes == register[STATUS_FAILED]
defaulted_nodes == register[STATUS_DEFAULTED]
aborted_nodes == register[STATUS_ABORTED]
norun_nodes == register[STATUS_NORUN]

\* set.add / set.remove on one status set of a register value
SetAdd(reg, s, n) == [reg EXCEPT ![s] = @ \cup {n}]
SetRemove(reg, s, n) == [reg EXCEPT ![s] = @ \ {n}]

child_nodes(n) == { c \in Nodes : n \in parent_nodes[c] }

RECURSIVE DescendantsUpTo(_, _)
DescendantsUpTo(S, k) ==
  IF k = 0 THEN S
  ELSE DescendantsUpTo(S \cup UNION { child_nodes(m) : m \in S }, k - 1)

\* the strict descendants of n
Descendants(n) == DescendantsUpTo(child_nodes(n), num_nodes)

\* NodeRegister.set_children_defaulted: every strict descendant of the node
\* that is not COMPLETED leaves its status set and joins DEFAULTED
set_children_defaulted(reg, n) ==
  LET moved == Descendants(n) \ reg[STATUS_COMPLETED]
  IN  [ s \in Statuses |->
          IF s = STATUS_DEFAULTED THEN reg[s] \cup moved ELSE reg[s] \ moved ]

\* NodeRegister after the job spec is loaded and the exclusion directives
\* (exec_disable and the like) are applied: excluded nodes NORUN, the rest PENDING
InitialRegister(norun) ==
  [ s \in Statuses |->
      IF s = STATUS_PENDING THEN Nodes \ norun
      ELSE IF s = STATUS_NORUN THEN norun
      ELSE {} ]

\* -------------------------------------------------------- the checkpoints
\* the two files save_state writes: the graph and the pickled context
CheckpointFiles == {"ctllog", "ctx"}

\* a path with no file, a file opened for writing whose body is not yet
\* written and closed, and a complete file with the given lines
NoFile == [exists |-> FALSE, complete |-> FALSE, lines |-> << >>]
PartialFile == [exists |-> TRUE, complete |-> FALSE, lines |-> << >>]
File(lines) == [exists |-> TRUE, complete |-> TRUE, lines |-> lines]

\* the status set that holds node n
status_of(reg, n) == CHOOSE s \in Statuses : n \in reg[s]

\* the nodes of a register
registered(reg) == UNION { reg[s] : s \in Statuses }

\* ListFileJobSpec.get_ctllog_line: the fields of one line; "" stands for
\* the default status=None. The attempt count and the timeout are no fields
get_ctllog_line(n, status) ==
  IF status # ""
    THEN [ id |-> n, parents |-> parent_nodes[n],
           max_attempts |-> max_attempts[n],
           retry_wait_time |-> retry_wait_time[n],
           status |-> status, worker |-> worker[n] ]
    ELSE [ id |-> n, parents |-> parent_nodes[n],
           max_attempts |-> max_attempts[n],
           retry_wait_time |-> retry_wait_time[n], worker |-> worker[n] ]

\* the file ListFileJobSpec.dump writes for a register: one line per node,
\* keyed by the id the lines are sorted by
dump(reg, with_status) ==
  File([ n \in registered(reg) |->
           get_ctllog_line(n, IF with_status THEN status_of(reg, n) ELSE "") ])

\* ListFileJobSpec.load: the register and the nodes built from the lines of a
\* file. With with_status only COMPLETED and NORUN are taken from the line,
\* without it add_node gets no status; every node is a new ExecutionNode,
\* whose attempt count is 0
load(file, with_status) ==
  LET ids == DOMAIN file.lines
      st(n) == IF with_status
                 THEN IF file.lines[n].status \in {STATUS_COMPLETED, STATUS_NORUN}
                        THEN file.lines[n].status ELSE STATUS_PENDING
                 ELSE STATUS_PENDING
  IN  [ register |-> [ s \in Statuses |-> { n \in ids : st(n) = s } ],
        parent_nodes |-> [ n \in ids |-> file.lines[n].parents ],
        attempts |-> [ n \in ids |-> 0 ] ]

\* the register of a new PyRunner: NodeRegister() with no node added
EmptyRegister == [ s \in Statuses |-> {} ]

\* the two permanent files after a save_state that ran to its end: dump is
\* called without with_status
SavedFiles(reg) ==
  [ f \in CheckpointFiles |->
      IF f = "ctllog" THEN dump(reg, FALSE) ELSE File(<< >>) ]

\* ------------------------------------------------------------ ExecutionNode
\* the codes the worker of node n can end with on the current attempt
ExitCodes(n) ==
  IF worker[n] = "SayHello" THEN {0}
  ELSE IF worker[n] = "FailMe" THEN {1}
  ELSE IF worker[n] = "FailTwice" THEN (IF attempts[n] <= 2 THEN {1} ELSE {0})
  ELSE IF worker[n] = "FailFirstRun" THEN (IF runs <= 1 THEN {1} ELSE {0})
  ELSE WorkerCodes

\* whether the try block of execute() can get a process started (TRUE) or
\* end in its except branch (FALSE)
SpawnOutcomes(n) == IF worker[n] = "any" THEN BOOLEAN ELSE {TRUE}

\* is_runnable without the comparison with _wait_until
is_runnable_Always(n) == TRUE

\* ExecutionNode.is_runnable
is_runnable(n) == node_wait[n] = 0

\* the timeout test with ">" for ">="
TimedOut_Strict(n) == timeout[n] > 0 /\ elapsed[n] > timeout[n]

\* the elif branch of poll: runtime since _start_time has reached the timeout
TimedOut(n) == timeout[n] > 0 /\ elapsed[n] >= timeout[n]

\* the retry branch with "<=" for "<"
RetryPending_OneMore(n) == retcode[n] > 0 /\ attempts[n] <= max_attempts[n]

\* the retry branch of poll
RetryPending(n) == retcode[n] > 0 /\ attempts[n] < max_attempts[n]

\* poll without the test of self._proc: a node without a process reads the
\* initial return code 0
poll_NoSentinel(n) ==
  IF proc[n] = "none" THEN 0
  ELSE IF proc[n] # "alive"
       THEN (IF RetryPending(n) THEN 0 - 1 ELSE retcode[n])
  ELSE IF TimedOut(n) THEN RC_TERMINATED
  ELSE RC_NONE

\* ExecutionNode.poll(wait=False): the value returned (RC_NONE for None)
poll(n) ==
  IF proc[n] = "none" THEN RC_NO_PROC
  ELSE IF proc[n] # "alive"
       THEN (IF RetryPending(n) THEN 0 - 1 ELSE retcode[n])
  ELSE IF TimedOut(n) THEN RC_TERMINATED
  ELSE RC_NONE

\* the gate with a parent loop that stops at the first parent that is done
ParentsDone_AnyParent(n) ==
  \E p \in parent_nodes[n] :
      ~ (p >= 0 /\ p \notin (completed_nodes \cup norun_nodes))

\* the dependency gate of the launch loop
ParentsDone(n) ==
  \A p \in parent_nodes[n] :
      ~ (p >= 0 /\ p \notin (completed_nodes \cup norun_nodes))

\* the cap compared with ">" for ">="
CapReached_OffByOne ==
  max_procs > 0 /\ Cardinality(running_nodes) > max_procs

\* the concurrency cap of the launch loop
CapReached ==
  max_procs > 0 /\ Cardinality(running_nodes) >= max_procs

Dec(x) == IF x > 0 THEN x - 1 ELSE 0

\* ---------------------------------------------------------------- Init
DagParents ==
  { f \in [Nodes -> SUBSET (Nodes \cup {ROOT_ID})] :
      \A n \in Nodes :
         /\ f[n] # {}
         /\ (ROOT_ID \in f[n] => f[n] = {ROOT_ID})
         /\ \A p \in f[n] : p < n }

\* the state when execute() is called for the first time: the graph and the
\* per-node settings as loaded, the launch parameters of the config, every
\* node PENDING or NORUN, marker files possibly left by an earlier instance
InitProgram(pn, ma, rw, to, wk, mp, tbt, norun, stale) ==
  /\ parent_nodes = pn
  /\ max_attempts = ma
  /\ retry_wait_time = rw
  /\ timeout = to
  /\ worker = wk
  /\ max_procs = mp
  /\ time_between_tasks = tbt
  /\ exec_disable_list = norun
  /\ register = InitialRegister(norun)
  /\ attempts = [n \in Nodes |-> 0]
  /\ node_wait = [n \in Nodes |-> 0]
  /\ started = [n \in Nodes |-> FALSE]
  /\ elapsed = [n \in Nodes |-> 0]
  /\ proc = [n \in Nodes |-> "none"]
  /\ retcode = [n \in Nodes |-> 0]
  /\ wait_until = 0
  /\ signals = stale
  /\ pc = "init"
  /\ todo = {}
  /\ result = 0
  /\ error = "none"
  /\ ctllog = "absent"
  /\ last_save = 0
  /\ aborted_run = FALSE
  /\ revives = 0
  /\ runs = 0
  /\ launches = [n \in Nodes |-> 0]
  /\ since_launch = tbt
  /\ restart = FALSE
  /\ perm = [f \in CheckpointFiles |-> NoFile]
  /\ tmp = [f \in CheckpointFiles |-> NoFile]
  /\ save_pc = << "", "idle" >>
  /\ saves = 0
  /\ inv = [i \in Invocations |-> "idle"]
  /\ sleep_left = [i \in Invocations |-> 0]
  /\ next_tick = [i \in Invocations |-> 0]
  /\ uptime = [i \in Invocations |-> 0]

\* the lifecycle methods a Worker subclass can define
WorkerMethods == {"on_start", "run", "on_success", "on_fail", "on_destroy"}

\* the parts followed on their own, before anything has happened: no worker
\* process and no poll; in every _on_<hook>_func the function of __init__,
\* which does nothing; no SignalHandler call under way; the empty dict and
\* the empty queue of get_context_instance. im tells what the methods of the
\* Worker class do and i whether -i was given. last_write keeps of the sets
\* of a key the value of the latest one, how many there were (up to
\* MaxWrites), and who made them
InitLibrary(im, i) ==
  /\ impl = im
  /\ wpos = "idle"
  /\ calls = << >>
  /\ poll_rc = RC_NONE
  /\ user_hooks = {}
  /\ hook_func =
       [h \in {"on_success", "on_fail", "on_destroy"} |-> "default"]
  /\ invoked = << >>
  /\ sig_op = [p \in 1..NumSigProcs |->
                 [step |-> "idle", peeked |-> {}, left |-> {}]]
  /\ sig_ret = [p \in 1..NumSigProcs |-> [value |-> "none", sigs |-> {}]]
  /\ shared_dict = [k \in 1..NumKeys |-> MISSING]
  /\ shared_queue = << >>
  /\ getter = [w \in 1..NumCtxWorkers |->
                 [step |-> "idle", key |-> MISSING, value |-> MISSING,
                  asked |-> FALSE]]
  /\ last_write = [k \in 1..NumKeys |->
                     [value |-> MISSING, writes |-> 0, by |-> {}]]
  /\ interactive = i

\* a Worker that defines run only, which returns nothing; no -i
InitState(pn, ma, rw, to, wk, mp, tbt, norun, stale) ==
  /\ InitProgram(pn, ma, rw, to, wk, mp, tbt, norun, stale)
  /\ InitLibrary([m \in WorkerMethods |->
                    IF m = "run" THEN "None" ELSE "NotImplementedError"],
                 FALSE)
  /\ allow_duplicate_jobs = FALSE

\* launch settings explored: the defaults of config.py and ExecutionNode
\* (one attempt, no timeout, no cap, no launch interval), then retries,
\* a timeout, a concurrency cap and a launch interval switched on
Profiles ==
  { << 1, 0, 0, 0 - 1, 0 >> }
  \cup { << MaxAttempts, MaxRetryWait, 0, 0 - 1, 0 >> }
  \cup { << 1, 0, 0, m, 0 >> : m \in 0..MaxProcs }
  \cup { << MaxAttempts, 0, MaxTimeout, MaxProcs, MaxTimeBetweenTasks >> }

Uniform(v) == [n \in Nodes |-> v]

Init ==
  /\ num_nodes = NumNodes
  /\ \E pn \in DagParents, pf \in Profiles, norun \in SUBSET Nodes,
     stale \in SUBSET {SIG_ABORT, SIG_PULSE, SIG_REVIVE} :
       InitState(pn, Uniform(pf[1]), Uniform(pf[2]), Uniform(pf[3]),
                 Uniform("any"), pf[4], pf[5], norun, stale)

\* ------------------------------------------------------- external actions
\* The controller looks at its workers and at the marker files only in the
\* steps of a tick, so what other processes do between two of its steps is
\* taken at the tick boundary.
AtBoundary == pc = "loop"

\* a worker process ends and leaves rc in its shared return code
WorkerExit(n, rc) ==
  /\ AtBoundary
  /\ proc[n] = "alive"
  /\ rc \in ExitCodes(n)
  /\ proc' = [proc EXCEPT ![n] = "dead"]
  /\ retcode' = [retcode EXCEPT ![n] = rc]
  /\ UNCHANGED << config_vars, lib_vars, since_launch,
                  startup_vars, save_vars, restart, perm,
                  register, attempts, node_wait, started, elapsed,
                  wait_until, signals, pc, todo, result, error, ctllog,
                  last_save, aborted_run, revives, runs, launches >>

\* a worker process is killed from outside, or dies, before it has written
\* its shared return code, which stays at the 0 of Worker.__init__
WorkerKilled(n) ==
  /\ AtBoundary
  /\ proc[n] = "alive"
  /\ proc' = [proc EXCEPT ![n] = "killed"]
  /\ UNCHANGED << config_vars, lib_vars, since_launch,
                  startup_vars, save_vars, restart, perm,
                  register, attempts, node_wait, started, elapsed, retcode,
                  wait_until, signals, pc, todo, result, error, ctllog,
                  last_save, aborted_run, revives, runs, launches >>

\* process_signals of a second invocation started with --abort
EmitAbort ==
  /\ AtBoundary
  /\ SIG_ABORT \notin signals
  /\ signals' = signals \cup {SIG_ABORT}
  /\ UNCHANGED << config_vars, lib_vars, since_launch,
                  startup_vars, save_vars, restart, perm,
                  register, attempts, node_wait, started, elapsed,
                  proc, retcode, wait_until, pc, todo, result, error, ctllog,
                  last_save, aborted_run, revives, runs, launches >>

\* process_signals of a second invocation started with --revive
EmitRevive ==
  /\ AtBoundary
  /\ SIG_REVIVE \notin signals
  /\ revives < MaxRevives
  /\ signals' = signals \cup {SIG_REVIVE}
  /\ revives' = revives + 1
  /\ UNCHANGED << config_vars, lib_vars, since_launch,
                  startup_vars, save_vars, restart, perm,
                  register, attempts, node_wait, started, elapsed,
                  proc, retcode, wait_until, pc, todo, result, error, ctllog,
                  last_save, aborted_run, runs, launches >>

\* process_signals of an invocation started with --revive while no
\* execute() loop is running
EmitReviveIdle ==
  /\ pc \in {"returned", "raised"}
  /\ SIG_REVIVE \notin signals
  /\ revives < MaxRevives
  /\ signals' = signals \cup {SIG_REVIVE}
  /\ revives' = revives + 1
  /\ UNCHANGED << config_vars, lib_vars, since_launch,
                  startup_vars, save_vars, restart, perm,
                  register, attempts, node_wait, started, elapsed,
                  proc, retcode, wait_until, pc, todo, result, error, ctllog,
                  last_save, aborted_run, runs, launches >>

\* ------------------------------------------------------- PyRunner.execute
\* execute() up to the loop without the consume_all of process_signals
Start_KeepSignals ==
  /\ pc = "init"
  /\ runs < MaxRuns
  /\ runs' = runs + 1
  /\ UNCHANGED signals
  /\ last_save' = 0
  /\ aborted_run' = FALSE
  /\ result' = 0
  /\ error' = "none"
  /\ pc' = "loop"
  /\ UNCHANGED << config_vars, lib_vars, since_launch,
                  startup_vars, save_vars, restart, perm,
                  register, attempts, node_wait, started, elapsed,
                  proc, retcode, wait_until, todo, ctllog, revives, launches >>

\* execute() up to the loop: process_signals clears every marker
Start ==
  /\ pc = "init"
  /\ runs < MaxRuns
  /\ runs' = runs + 1
  /\ signals' = {}
  /\ last_save' = 0
  /\ aborted_run' = FALSE
  /\ result' = 0
  /\ error' = "none"
  /\ pc' = "loop"
  /\ UNCHANGED << config_vars, lib_vars, since_launch,
                  startup_vars, save_vars, restart, perm,
                  register, attempts, node_wait, started, elapsed,
                  proc, retcode, wait_until, todo, ctllog, revives, launches >>

LoopActive == running_nodes # {} \/ pending_nodes # {}

\* the while condition is false
LoopExit ==
  /\ pc = "loop"
  /\ ~ LoopActive
  /\ pc' = "finish"
  /\ UNCHANGED << config_vars, lib_vars, since_launch,
                  startup_vars, save_vars, restart, perm,
                  register, attempts, node_wait, started, elapsed,
                  proc, retcode, wait_until, signals, todo, result, error,
                  ctllog, last_save, aborted_run, revives, runs, launches >>

\* top of a tick with the ABORT marker present: _abort_all_workers begins
ConsumeAbort ==
  /\ pc = "loop"
  /\ LoopActive
  /\ SIG_ABORT \in signals
  /\ signals' = signals \ {SIG_PULSE, SIG_ABORT}
  /\ aborted_run' = TRUE
  /\ todo' = running_nodes
  /\ pc' = "abort"
  /\ UNCHANGED << config_vars, lib_vars, since_launch,
                  startup_vars, save_vars, restart, perm,
                  register, attempts, node_wait, started, elapsed,
                  proc, retcode, wait_until, result, error, ctllog, last_save,
                  revives, runs, launches >>

\* the REVIVE branch without its second loop
ReviveRegister_FailedOnly(reg) ==
  [ s \in Statuses |->
      IF s = STATUS_PENDING THEN reg[s] \cup reg[STATUS_FAILED]
      ELSE IF s = STATUS_FAILED THEN {}
      ELSE reg[s] ]

\* the REVIVE branch: failed nodes are revived and re-queued, defaulted
\* nodes are re-queued
ReviveRegister(reg) ==
  [ s \in Statuses |->
      IF s = STATUS_PENDING
        THEN reg[s] \cup reg[STATUS_FAILED] \cup reg[STATUS_DEFAULTED]
      ELSE IF s \in {STATUS_FAILED, STATUS_DEFAULTED} THEN {}
      ELSE reg[s] ]

\* ExecutionNode.revive, applied to the nodes of S
revive(S) ==
  /\ attempts' = [n \in Nodes |-> IF n \in S THEN 0 ELSE attempts[n]]
  /\ node_wait' = [n \in Nodes |-> IF n \in S THEN exec_interval ELSE node_wait[n]]

\* top of a tick without ABORT: PULSE and REVIVE are consumed
TickBegin ==
  /\ pc = "loop"
  /\ LoopActive
  /\ SIG_ABORT \notin signals
  /\ signals' = signals \ {SIG_PULSE, SIG_REVIVE}
  /\ IF SIG_REVIVE \in signals
       THEN /\ revive(failed_nodes)
            /\ register' = ReviveRegister(register)
       ELSE UNCHANGED << attempts, node_wait, register >>
  /\ todo' = running_nodes'
  /\ pc' = "poll"
  /\ UNCHANGED << config_vars, lib_vars, since_launch,
                  startup_vars, save_vars, restart, perm,
                  started, elapsed, proc, retcode, wait_until,
                  result, error, ctllog, last_save, aborted_run, revives, runs,
                  launches >>

\* the classification without running_nodes.remove(node)
Classify_NoRemove(reg, n, rc) ==
  IF rc > 0
    THEN set_children_defaulted(SetAdd(reg, STATUS_FAILED, n), n)
  ELSE IF rc < 0 THEN SetAdd(reg, STATUS_PENDING, n)
  ELSE SetAdd(reg, STATUS_COMPLETED, n)

\* the classification with the cascade run for the retry sentinel as well
Classify_RetryCascades(reg, n, rc) ==
  LET r1 == SetRemove(reg, STATUS_RUNNING, n)
  IN  IF rc > 0
        THEN set_children_defaulted(SetAdd(r1, STATUS_FAILED, n), n)
      ELSE IF rc < 0
        THEN set_children_defaulted(SetAdd(r1, STATUS_PENDING, n), n)
      ELSE SetAdd(r1, STATUS_COMPLETED, n)

\* the classification without the call of set_children_defaulted
Classify_NoCascade(reg, n, rc) ==
  LET r1 == SetRemove(reg, STATUS_RUNNING, n)
  IN  IF rc > 0 THEN SetAdd(r1, STATUS_FAILED, n)
      ELSE IF rc < 0 THEN SetAdd(r1, STATUS_PENDING, n)
      ELSE SetAdd(r1, STATUS_COMPLETED, n)

\* the register after the poll loop has classified node n with code rc
Classify(reg, n, rc) ==
  LET r1 == SetRemove(reg, STATUS_RUNNING, n)
  IN  IF rc > 0
        THEN set_children_defaulted(SetAdd(r1, STATUS_FAILED, n), n)
      ELSE IF rc < 0 THEN SetAdd(r1, STATUS_PENDING, n)
      ELSE SetAdd(r1, STATUS_COMPLETED, n)

\* one iteration of "for node in running_nodes.copy()": poll and reclassify
PollNode(n) ==
  /\ pc = "poll"
  /\ n \in todo
  /\ todo' = todo \ {n}
  /\ proc' = [proc EXCEPT ![n] =
                IF proc[n] # "alive" \/ TimedOut(n)
                  THEN "none" ELSE @]
  /\ node_wait' = [node_wait EXCEPT ![n] =
                IF proc[n] \in {"dead", "killed"} /\ RetryPending(n)
                  THEN retry_wait_time[n] ELSE @]
  /\ IF poll(n) = RC_NONE
       THEN UNCHANGED << register, pc, error >>
     ELSE IF n \notin running_nodes
       \* set.remove of a missing element raises KeyError
       THEN /\ pc' = "raised"
            /\ error' = "KeyError"
            /\ UNCHANGED register
     ELSE /\ register' = Classify(register, n, poll(n))
          /\ UNCHANGED << pc, error >>
  \* cleanup() drops the worker instance and its return code with it
  /\ retcode' = [retcode EXCEPT ![n] = IF proc'[n] = "none" THEN 0 ELSE @]
  /\ UNCHANGED << config_vars, lib_vars, since_launch,
                  startup_vars, save_vars, restart, perm,
                  attempts, started, elapsed, wait_until,
                  signals, result, ctllog, last_save, aborted_run, revives,
                  runs, launches >>

\* the poll loop is over: the launch loop starts on a copy of pending_nodes
PollDone ==
  /\ pc = "poll"
  /\ todo = {}
  /\ todo' = pending_nodes
  /\ pc' = "launch"
  /\ UNCHANGED << config_vars, lib_vars, since_launch,
                  startup_vars, save_vars, restart, perm,
                  register, attempts, node_wait, started, elapsed,
                  proc, retcode, wait_until, signals, result, error, ctllog,
                  last_save, aborted_run, revives, runs, launches >>

\* the two break statements of the launch loop
LaunchBreak ==
  /\ pc = "launch"
  /\ todo # {}
  /\ CapReached \/ wait_until > 0
  /\ todo' = {}
  /\ pc' = "post"
  /\ UNCHANGED << config_vars, lib_vars, since_launch,
                  startup_vars, save_vars, restart, perm,
                  register, attempts, node_wait, started, elapsed,
                  proc, retcode, wait_until, signals, result, error, ctllog,
                  last_save, aborted_run, revives, runs, launches >>

\* the launch loop without the test of self._wait_until
LaunchNode_NoInterval(n, spawned) ==
  /\ pc = "launch"
  /\ n \in todo
  /\ spawned \in SpawnOutcomes(n)
  /\ ~ CapReached
  /\ todo' = todo \ {n}
  /\ wait_until' = time_between_tasks
  /\ IF ParentsDone(n) /\ is_runnable(n)
       THEN /\ register' = SetAdd(SetRemove(register, STATUS_PENDING, n),
                                  STATUS_RUNNING, n)
            /\ attempts' = [attempts EXCEPT ![n] = @ + 1]
            /\ started' = [started EXCEPT ![n] = TRUE]
            /\ launches' = [launches EXCEPT ![n] =
                              IF @ < MaxLaunches THEN @ + 1 ELSE @]
            /\ since_launch' = 0
            /\ IF spawned
                 THEN /\ proc' = [proc EXCEPT ![n] = "alive"]
                      /\ retcode' = [retcode EXCEPT ![n] = 0]
                 ELSE UNCHANGED << proc, retcode >>
       ELSE /\ spawned
            /\ UNCHANGED << register, attempts, started, launches, proc,
                            retcode, since_launch >>
  /\ UNCHANGED << config_vars, lib_vars,
                  startup_vars, save_vars, restart, perm,
                  node_wait, elapsed, signals, pc, result, error,
                  ctllog, last_save, aborted_run, revives, runs >>

\* one iteration of "for node in pending_nodes.copy()" that reaches the gate;
\* spawned tells whether ExecutionNode.execute got a process started or
\* caught an exception on the way
LaunchNode(n, spawned) ==
  /\ pc = "launch"
  /\ n \in todo
  /\ spawned \in SpawnOutcomes(n)
  /\ ~ CapReached
  /\ wait_until = 0
  /\ todo' = todo \ {n}
  /\ wait_until' = time_between_tasks
  /\ IF ParentsDone(n) /\ is_runnable(n)
       THEN /\ register' = SetAdd(SetRemove(register, STATUS_PENDING, n),
                                  STATUS_RUNNING, n)
            /\ attempts' = [attempts EXCEPT ![n] = @ + 1]
            /\ started' = [started EXCEPT ![n] = TRUE]
            /\ launches' = [launches EXCEPT ![n] =
                              IF @ < MaxLaunches THEN @ + 1 ELSE @]
            /\ since_launch' = 0
            /\ IF spawned
                 THEN /\ proc' = [proc EXCEPT ![n] = "alive"]
                      /\ retcode' = [retcode EXCEPT ![n] = 0]
                 ELSE UNCHANGED << proc, retcode >>
       ELSE /\ spawned
            /\ UNCHANGED << register, attempts, started, launches, proc,
                            retcode, since_launch >>
  /\ UNCHANGED << config_vars, lib_vars,
                  startup_vars, save_vars, restart, perm,
                  node_wait, elapsed, signals, pc, result, error,
                  ctllog, last_save, aborted_run, revives, runs >>

\* the launch loop has visited every node of its copy
LaunchDone ==
  /\ pc = "launch"
  /\ todo = {}
  /\ pc' = "post"
  /\ UNCHANGED << config_vars, lib_vars, since_launch,
                  startup_vars, save_vars, restart, perm,
                  register, attempts, node_wait, started, elapsed,
                  proc, retcode, wait_until, signals, todo, result, error,
                  ctllog, last_save, aborted_run, revives, runs, launches >>

\* the rest of a tick: the periodic save_state, then the sleep to the next
\* tick boundary, during which one period passes
EndTick ==
  /\ pc = "post"
  /\ ctllog' = IF last_save = 0 THEN "periodic" ELSE ctllog
  /\ perm' = IF last_save = 0 THEN SavedFiles(register) ELSE perm
  /\ last_save' = Dec(IF last_save = 0 THEN SaveInterval ELSE last_save)
  /\ wait_until' = Dec(wait_until)
  /\ since_launch' = IF since_launch < time_between_tasks
                       THEN since_launch + 1 ELSE since_launch
  /\ node_wait' = [n \in Nodes |-> Dec(node_wait[n])]
  /\ elapsed' = [n \in Nodes |->
                   IF started[n] /\ timeout[n] > 0 /\ elapsed[n] < timeout[n]
                     THEN elapsed[n] + 1 ELSE elapsed[n]]
  /\ pc' = "loop"
  /\ UNCHANGED << config_vars, lib_vars,
                  startup_vars, save_vars, restart,
                  register, attempts, started, proc, retcode,
                  signals, todo, result, error, aborted_run, revives, runs,
                  launches >>

\* Ctrl-C inside the try block: the except branch calls _abort_all_workers
KeyboardInterrupt ==
  /\ pc \in {"loop", "poll", "launch", "post"}
  /\ aborted_run' = TRUE
  /\ todo' = running_nodes
  /\ pc' = "abort"
  /\ UNCHANGED << config_vars, lib_vars, since_launch,
                  startup_vars, save_vars, restart, perm,
                  register, attempts, node_wait, started, elapsed,
                  proc, retcode, wait_until, signals, result, error, ctllog,
                  last_save, revives, runs, launches >>

\* Ctrl-C inside an iteration of the launch loop, after node.execute() has
\* spawned the worker and before running_nodes.add(node)
InterruptedLaunch(n) ==
  /\ pc = "launch"
  /\ n \in todo
  /\ ~ CapReached
  /\ wait_until = 0
  /\ ParentsDone(n) /\ is_runnable(n)
  /\ wait_until' = time_between_tasks
  /\ register' = SetRemove(register, STATUS_PENDING, n)
  /\ attempts' = [attempts EXCEPT ![n] = @ + 1]
  /\ started' = [started EXCEPT ![n] = TRUE]
  /\ launches' = [launches EXCEPT ![n] = IF @ < MaxLaunches THEN @ + 1 ELSE @]
  /\ since_launch' = 0
  /\ proc' = [proc EXCEPT ![n] = "alive"]
  /\ retcode' = [retcode EXCEPT ![n] = 0]
  /\ aborted_run' = TRUE
  /\ todo' = running_nodes
  /\ pc' = "abort"
  /\ UNCHANGED << config_vars, lib_vars,
                  startup_vars, save_vars, restart, perm,
                  node_wait, elapsed, signals, result, error,
                  ctllog, last_save, revives, runs >>

\* one iteration of the loop of _abort_all_workers
AbortNode(n) ==
  /\ pc = "abort"
  /\ n \in todo
  /\ todo' = todo \ {n}
  /\ IF proc[n] = "none"
       \* terminate: self._proc.is_alive() on None raises AttributeError
       THEN /\ pc' = "raised"
            /\ error' = "AttributeError"
            /\ UNCHANGED << proc, register >>
     ELSE IF n \notin running_nodes
       THEN /\ pc' = "raised"
            /\ error' = "KeyError"
            /\ proc' = [proc EXCEPT ![n] = "none"]
            /\ UNCHANGED register
     ELSE /\ proc' = [proc EXCEPT ![n] = "none"]
          /\ register' = set_children_defaulted(
                           SetAdd(SetRemove(register, STATUS_RUNNING, n),
                                  STATUS_ABORTED, n), n)
          /\ UNCHANGED << pc, error >>
  /\ retcode' = [retcode EXCEPT ![n] = IF proc'[n] = "none" THEN 0 ELSE @]
  /\ UNCHANGED << config_vars, lib_vars, since_launch,
                  startup_vars, save_vars, restart, perm,
                  attempts, node_wait, started, elapsed,
                  wait_until, signals, result, ctllog, last_save, aborted_run,
                  revives, runs, launches >>

\* the end of _abort_all_workers (save_state) and "return -1"
AbortDone ==
  /\ pc = "abort"
  /\ todo = {}
  /\ ctllog' = "abort"
  /\ perm' = SavedFiles(register)
  /\ result' = 0 - 1
  /\ pc' = "returned"
  /\ UNCHANGED << config_vars, lib_vars, since_launch,
                  startup_vars, save_vars, restart,
                  register, attempts, node_wait, started, elapsed,
                  proc, retcode, wait_until, signals, todo, error, last_save,
                  aborted_run, revives, runs, launches >>

\* everything after the loop: the job hooks (on_success or on_fail by the
\* FAILED set, then on_destroy), then the notification and the clean-up.
\* The three parameters tell whether the strings
\* configured for notify_on_success, notify_on_fail and nozip are non-empty:
\* the code tests them with "not", which is false of any non-empty string
Finish(notify_on_success, notify_on_fail, nozip) ==
  LET count == Cardinality(failed_nodes)
      should_notify ==
        /\ ~ (count = 0 /\ ~ notify_on_success)
        /\ ~ (count > 0 /\ ~ notify_on_fail)
      after_loop == IF count = 0 THEN "on_success" ELSE "on_fail"
  IN
  /\ pc = "finish"
  /\ invoked' = << << after_loop, hook_func[after_loop] >>,
                   << "on_destroy", hook_func["on_destroy"] >> >>
  /\ ctllog' = "final"
  /\ perm' = SavedFiles(register)
  /\ IF should_notify
       \* EmailNotification.emit_notification: config['email'] is no section
       THEN /\ pc' = "raised"
            /\ error' = "KeyError"
            /\ UNCHANGED result
     ELSE IF ~ nozip \/ count = 0
       \* zip_log_files and delete_state: Config has no attribute ctllog_file
       THEN /\ pc' = "raised"
            /\ error' = "AttributeError"
            /\ UNCHANGED result
     ELSE /\ pc' = "returned"
          /\ result' = count
          /\ UNCHANGED error
  /\ UNCHANGED << config_vars, since_launch,
                  impl, wpos, calls, poll_rc, user_hooks,
                  hook_func, sig_op, sig_ret, shared_dict, shared_queue,
                  getter, last_write, interactive, startup_vars, save_vars, restart,
                  register, attempts, node_wait, started, elapsed,
                  proc, retcode, wait_until, signals, todo, last_save,
                  aborted_run, revives, runs, launches >>

\* execute() is called again on the same PyRunner
Rerun ==
  /\ pc \in {"returned", "raised"}
  /\ runs < MaxRuns
  /\ pc' = "init"
  /\ UNCHANGED << config_vars, lib_vars, since_launch,
                  startup_vars, save_vars, restart, perm,
                  register, attempts, node_wait, started, elapsed,
                  proc, retcode, wait_until, signals, todo, result, error,
                  ctllog, last_save, aborted_run, revives, runs, launches >>

\* a new process is started with -r after the previous one has ended, with
\* both checkpoint files in place: __init__ calls jobspec.load on the graph
\* checkpoint and drops the register it returns, so that self.register stays
\* the NodeRegister() of line 42, and self.restart stays True. No ExecutionNode
\* of the previous process exists in the new one
Restart ==
  /\ pc \in {"returned", "raised"}
  /\ runs < MaxRuns
  /\ perm["ctllog"].exists /\ perm["ctx"].exists
  /\ restart' = TRUE
  /\ register' = EmptyRegister
  /\ attempts' = [n \in Nodes |-> 0]
  /\ node_wait' = [n \in Nodes |-> 0]
  /\ started' = [n \in Nodes |-> FALSE]
  /\ elapsed' = [n \in Nodes |-> 0]
  /\ proc' = [n \in Nodes |-> "none"]
  /\ retcode' = [n \in Nodes |-> 0]
  /\ wait_until' = 0
  /\ since_launch' = time_between_tasks
  /\ todo' = {}
  /\ pc' = "init"
  /\ UNCHANGED << config_vars, lib_vars,
                  startup_vars, save_vars, perm,
                  signals, result, error, ctllog, last_save, aborted_run,
                  revives, runs, launches >>

\* the steps of the controller in a run that receives no ABORT
Controller ==
  \/ Start
  \/ LoopExit
  \/ TickBegin
  \/ \E n \in Nodes : PollNode(n)
  \/ PollDone
  \/ LaunchBreak
  \/ \E n \in Nodes, spawned \in BOOLEAN : LaunchNode(n, spawned)
  \/ LaunchDone
  \/ EndTick
  \/ \E a, b, c \in BOOLEAN : Finish(a, b, c)

\* the abort path
AbortPath ==
  \/ ConsumeAbort
  \/ \E n \in Nodes : AbortNode(n)
  \/ AbortDone

Workers == \E n \in Nodes, rc \in WorkerCodes : WorkerExit(n, rc)

Next ==
  \/ Workers
  \/ EmitAbort
  \/ EmitRevive
  \/ Controller
  \/ AbortPath

Spec == Init /\ [][Next]_vars

\* a run that no other invocation sends a signal to
NextQuiet == Workers \/ Controller

\* Ctrl-C may arrive at any point of the loop
NextInterrupt == Next \/ KeyboardInterrupt

SpecInterrupt == Init /\ [][NextInterrupt]_vars

\* execute() may be called a second time
NextRerun == Next \/ Rerun

SpecRerun == Init /\ [][NextRerun]_vars

\* ------------------------------------------------------------ cli.main
\* the exit statuses of the except clauses of main, in the order in which
\* they are tried
ErrorStatuses == {2, 3, 4, 5, 6, 99}

\* the except clause that catches an exception of the given class
error_status(e) ==
  IF e = "ValueError" THEN 2
  ELSE IF e \in {"LookupError", "KeyError", "IndexError"} THEN 3
  ELSE IF e = "KeyboardInterrupt" THEN 4
  ELSE IF e \in {"RuntimeError", "NotImplementedError"} THEN 5
  ELSE IF e \in {"OSError", "FileNotFoundError"} THEN 6
  ELSE 99

\* the status the process ends with once execute() has returned or raised:
\* sys.exit(exit_status), of which the caller sees the low eight bits
exit_status ==
  IF pc = "raised" THEN error_status(error) ELSE result % 256

\* ------------------------------------------- save_state, step by step
\* save_state followed through its file operations: for the graph and then
\* for the context, open the temporary file, write it, unlink the permanent
\* file if there is one, rename the temporary file. save_pc is the pair of
\* the file at work and the operation done last
SaveIdle == << "", "idle" >>

\* the rest of the state, which no file operation touches
save_frame ==
  UNCHANGED << config_vars, lib_vars, since_launch,
               startup_vars, restart, register, attempts,
             node_wait, started, elapsed, proc, retcode, wait_until,
             signals, pc, todo, result, error, ctllog, last_save,
             aborted_run, revives, runs, launches >>

\* save_state is called, by a controller that has not crashed or by the
\* process started after a crash
SaveCall ==
  /\ save_pc[2] \in {"idle", "crashed"}
  /\ saves < MaxSaves
  /\ save_pc' = << "ctllog", "begin" >>
  /\ UNCHANGED << perm, tmp, saves >>
  /\ save_frame

\* open(tmp, "w"): the temporary file exists and is empty
SaveOpen(f) ==
  /\ save_pc = << f, "begin" >>
  /\ tmp' = [tmp EXCEPT ![f] = PartialFile]
  /\ save_pc' = << f, "opened" >>
  /\ UNCHANGED << perm, saves >>
  /\ save_frame

\* f.write(body), pickle.dump: the temporary file is complete
SaveWrite(f) ==
  /\ save_pc = << f, "opened" >>
  /\ tmp' = [tmp EXCEPT ![f] = SavedFiles(register)[f]]
  /\ save_pc' = << f, "written" >>
  /\ UNCHANGED << perm, saves >>
  /\ save_frame

\* if os.path.isfile(perm): os.unlink(perm)
SaveUnlink(f) ==
  /\ save_pc = << f, "written" >>
  /\ perm[f].exists
  /\ perm' = [perm EXCEPT ![f] = NoFile]
  /\ save_pc' = << f, "unlinked" >>
  /\ UNCHANGED << tmp, saves >>
  /\ save_frame

\* os.rename(tmp, perm); after the graph comes the context, after the
\* context save_state returns
SaveRename(f) ==
  /\ \/ save_pc = << f, "unlinked" >>
     \/ save_pc = << f, "written" >> /\ ~ perm[f].exists
  /\ perm' = [perm EXCEPT ![f] = tmp[f]]
  /\ tmp' = [tmp EXCEPT ![f] = NoFile]
  /\ IF f = "ctllog"
       THEN /\ save_pc' = << "ctx", "begin" >>
            /\ UNCHANGED saves
       ELSE /\ save_pc' = SaveIdle
            /\ saves' = saves + 1
  /\ save_frame

\* the controller dies between two file operations
SaveCrash ==
  /\ save_pc[2] \in {"begin", "opened", "written", "unlinked"}
  /\ save_pc' = << save_pc[1], "crashed" >>
  /\ UNCHANGED << perm, tmp, saves >>
  /\ save_frame

NextSave ==
  \/ SaveCall
  \/ \E f \in CheckpointFiles :
        SaveOpen(f) \/ SaveWrite(f) \/ SaveUnlink(f) \/ SaveRename(f)
  \/ SaveCrash

\* ------------------------------------------------- startup of invocations
\* Several invocations of the program for one job name, each followed from
\* process_signals to the end of its loop: "idle" (not started), "sleeping"
\* (PULSE emitted, in the sleep of dup_proc_is_running), "checked" (peek has
\* seen PULSE, consume_all not yet called), "ticking" (in the loop of
\* execute), "dup" (OSError raised), "exited". Time is counted in units of
\* half a tick interval; it passes in Elapse, and only when no invocation has
\* a step due at the current instant

\* the rest of the state, which belongs to the controller followed in detail
startup_frame ==
  UNCHANGED << config_vars, lib_vars, since_launch,
               save_vars, restart, perm, register, attempts,
               node_wait, started, elapsed, proc, retcode, wait_until, pc,
               todo, result, error, ctllog, last_save, aborted_run, revives,
               runs, launches >>

\* dup_proc_is_running without the emit of PULSE
Begin_NoEmit(i) ==
  /\ inv[i] = "idle"
  /\ inv' = [inv EXCEPT ![i] = "sleeping"]
  /\ sleep_left' = [sleep_left EXCEPT ![i] = DupWait]
  /\ UNCHANGED << signals, next_tick, uptime >>
  /\ startup_frame

\* execute() of an invocation without --abort and --revive reaches
\* dup_proc_is_running: PULSE is emitted and the sleep begins
Begin(i) ==
  /\ inv[i] = "idle"
  /\ signals' = signals \cup {SIG_PULSE}
  /\ inv' = [inv EXCEPT ![i] = "sleeping"]
  /\ sleep_left' = [sleep_left EXCEPT ![i] = DupWait]
  /\ UNCHANGED << next_tick, uptime >>
  /\ startup_frame

\* the sleep is over: peek; without PULSE process_signals raises OSError
PulseCheck(i) ==
  /\ inv[i] = "sleeping"
  /\ sleep_left[i] = 0
  /\ inv' = [inv EXCEPT ![i] = IF SIG_PULSE \notin signals
                                 THEN "dup" ELSE "checked"]
  /\ UNCHANGED << signals, sleep_left, next_tick, uptime >>
  /\ startup_frame

\* consume_all, a call of its own after the peek of the check, and the way
\* to the loop: start_time is set and the first tick is due at once
ConsumeAll(i) ==
  /\ inv[i] = "checked"
  /\ signals' = {}
  /\ inv' = [inv EXCEPT ![i] = "ticking"]
  /\ next_tick' = [next_tick EXCEPT ![i] = 0]
  /\ uptime' = [uptime EXCEPT ![i] = 0]
  /\ UNCHANGED sleep_left
  /\ startup_frame

\* the top of a tick: PULSE is consumed, ABORT is consumed and ends the run,
\* otherwise REVIVE is consumed; the next tick is one interval away
TickTop(i) ==
  /\ inv[i] = "ticking"
  /\ next_tick[i] = 0
  /\ IF SIG_ABORT \in signals
       THEN /\ signals' = signals \ {SIG_PULSE, SIG_ABORT}
            /\ inv' = [inv EXCEPT ![i] = "exited"]
            /\ UNCHANGED next_tick
       ELSE /\ signals' = signals \ {SIG_PULSE, SIG_REVIVE}
            /\ next_tick' = [next_tick EXCEPT ![i] = TickPeriod]
            /\ UNCHANGED inv
  /\ UNCHANGED << sleep_left, uptime >>
  /\ startup_frame

\* the while condition is false at a tick boundary: the invocation leaves
\* the loop and ends
Exit(i) ==
  /\ inv[i] = "ticking"
  /\ next_tick[i] = 0
  /\ inv' = [inv EXCEPT ![i] = "exited"]
  /\ UNCHANGED << signals, sleep_left, next_tick, uptime >>
  /\ startup_frame

\* an invocation with --abort or --revive: the marker is emitted, sys.exit(0)
SendSignal(sig) ==
  /\ sig \notin signals
  /\ signals' = signals \cup {sig}
  /\ UNCHANGED startup_vars
  /\ startup_frame

\* one unit of time passes; no sleep has run out, no tick is due and no
\* invocation stands between its peek and its consume_all
Elapse ==
  /\ \E i \in Invocations : inv[i] \in {"sleeping", "ticking"}
  /\ \A i \in Invocations :
        /\ inv[i] = "sleeping" => sleep_left[i] > 0
        /\ inv[i] = "ticking" => next_tick[i] > 0
        /\ inv[i] # "checked"
  /\ sleep_left' = [i \in Invocations |->
                      IF inv[i] = "sleeping" THEN sleep_left[i] - 1
                      ELSE sleep_left[i]]
  /\ next_tick' = [i \in Invocations |->
                     IF inv[i] = "ticking" THEN next_tick[i] - 1
                     ELSE next_tick[i]]
  /\ uptime' = [i \in Invocations |->
                  IF inv[i] = "ticking" /\ uptime[i] < DupWait
                    THEN uptime[i] + 1 ELSE uptime[i]]
  /\ UNCHANGED << signals, inv >>
  /\ startup_frame

\* the steps of an invocation once it has started
Proceed(i) == PulseCheck(i) \/ ConsumeAll(i) \/ TickTop(i) \/ Exit(i)

\* invocations started at any time
NextStartup ==
  \/ \E i \in Invocations : Begin(i) \/ Proceed(i)
  \/ \E sig \in {SIG_ABORT, SIG_REVIVE} : SendSignal(sig)
  \/ Elapse

\* an invocation started while no other one is between its start and its end
BeginAlone(i) ==
  /\ \A j \in Invocations \ {i} : inv[j] \in {"idle", "dup", "exited"}
  /\ Begin(i)

\* invocations started one after the other
NextSequential ==
  \/ \E i \in Invocations : BeginAlone(i) \/ Proceed(i)
  \/ \E sig \in {SIG_ABORT, SIG_REVIVE} : SendSignal(sig)
  \/ Elapse

\* ------------------------------------------------------ job lifecycle hooks
\* the decorators on_success, on_fail and on_destroy of PyRunner, applied by
\* the application before execute(): each calls the function held in
\* _on_<hook>_func with the function given, and assigns nothing. The function
\* held is the one of __init__, which takes any arguments and returns None
RegisterHook(h) ==
  /\ pc = "init" /\ runs = 0
  /\ h \notin user_hooks
  /\ user_hooks' = user_hooks \cup {h}
  /\ hook_func' = hook_func
  /\ UNCHANGED << config_vars, since_launch,
                  impl, wpos, calls, poll_rc, invoked, sig_op,
                  sig_ret, shared_dict, shared_queue, getter, last_write,
                  interactive, startup_vars, save_vars, restart, perm, register, attempts,
                  node_wait, started, elapsed, proc, retcode, wait_until,
                  signals, pc, todo, result, error, ctllog, last_save,
                  aborted_run, revives, runs, launches >>

\* ----------------------------------- SignalHandler, one file operation at
\* a time. Each process is in at most one call; peek is taken as one step.
\* sig_ret holds what a call hands back: a value, and the markers it reports
\* as set
sigop_frame ==
  UNCHANGED << config_vars, since_launch,
               impl, wpos, calls, poll_rc, user_hooks,
               hook_func, invoked, shared_dict, shared_queue, getter,
               last_write, interactive, startup_vars, save_vars, restart, perm, register, attempts,
               node_wait, started, elapsed, proc, retcode, wait_until, pc,
               todo, result, error, ctllog, last_save, aborted_run, revives,
               runs, launches >>

\* emit(sig): open(sig_file, "a").close() makes the file or leaves it
SigEmit(p, sig) ==
  /\ sig_op[p].step = "idle"
  /\ signals' = signals \cup {sig}
  /\ sig_ret' = [sig_ret EXCEPT ![p] = [value |-> "None", sigs |-> {}]]
  /\ UNCHANGED sig_op
  /\ sigop_frame

\* consume(sig) up to its test "sig in self.peek()": False when the marker
\* is not there, otherwise on to os.remove
ConsumePeek(p, sig) ==
  /\ sig_op[p].step = "idle"
  /\ IF sig \in signals
       THEN /\ sig_op' = [sig_op EXCEPT ![p] =
                  [step |-> "consume", peeked |-> {sig}, left |-> {sig}]]
            /\ sig_ret' = [sig_ret EXCEPT ![p] = [value |-> "none", sigs |-> {}]]
       ELSE /\ sig_ret' = [sig_ret EXCEPT ![p] = [value |-> "False", sigs |-> {}]]
            /\ UNCHANGED sig_op
  /\ UNCHANGED signals
  /\ sigop_frame

\* consume_all() up to "sig_set = self.peek()"
ConsumeAllPeek(p) ==
  /\ sig_op[p].step = "idle"
  /\ IF signals # {}
       THEN /\ sig_op' = [sig_op EXCEPT ![p] =
                  [step |-> "consume_all", peeked |-> signals,
                   left |-> signals]]
            /\ sig_ret' = [sig_ret EXCEPT ![p] = [value |-> "none", sigs |-> {}]]
       ELSE /\ sig_ret' = [sig_ret EXCEPT ![p] = [value |-> "set", sigs |-> {}]]
            /\ UNCHANGED sig_op
  /\ UNCHANGED signals
  /\ sigop_frame

\* os.remove(sig_file) of consume or of one round of the loop of
\* consume_all: it removes the file, or raises FileNotFoundError when the
\* file is not there any more, which ends the call. After the last file
\* consume returns True and consume_all the set it peeked
SigRemove(p, sig) ==
  /\ sig_op[p].step # "idle"
  /\ sig \in sig_op[p].left
  /\ IF sig \in signals
       THEN /\ signals' = signals \ {sig}
            /\ IF sig_op[p].left = {sig}
                 THEN /\ sig_op' = [sig_op EXCEPT ![p].step = "idle",
                                   ![p].peeked = {}, ![p].left = {}]
                      /\ sig_ret' = [sig_ret EXCEPT ![p] =
                           [value |-> IF sig_op[p].step = "consume"
                                        THEN "True" ELSE "set",
                            sigs |-> sig_op[p].peeked]]
                 ELSE /\ sig_op' = [sig_op EXCEPT ![p].left = @ \ {sig}]
                      /\ UNCHANGED sig_ret
       ELSE /\ sig_op' = [sig_op EXCEPT ![p].step = "idle",
                                   ![p].peeked = {}, ![p].left = {}]
            /\ sig_ret' = [sig_ret EXCEPT ![p] =
                             [value |-> "FileNotFoundError", sigs |-> {}]]
            /\ UNCHANGED signals
  /\ sigop_frame

\* ------------------------------------------------------------ the Context
\* shared_dict is a dict of a multiprocessing Manager and shared_queue a queue
\* of it: each operation on them is one request that the manager process
\* carries out by itself, so it is one step here
context_frame ==
  UNCHANGED << config_vars, since_launch,
               impl, wpos, calls, poll_rc, user_hooks,
               hook_func, invoked, sig_op, sig_ret, interactive,
               startup_vars, save_vars, restart, perm, register, attempts,
               node_wait, started, elapsed, proc, retcode, wait_until,
               signals, pc, todo, result, error, ctllog, last_save,
               aborted_run, revives, runs, launches >>

\* an assignment that replaces the dict by one that holds the new key only
dict_set_Replace(d, k, v) == [x \in 1..NumKeys |-> IF x = k THEN v ELSE MISSING]

\* self.shared_dict[key] = value
dict_set(d, k, v) == [d EXCEPT ![k] = v]

\* the record of a set of key k to v by who
Written(k, v, who) ==
  [last_write EXCEPT ![k] =
     [value |-> v,
      writes |-> IF @.writes < MaxWrites THEN @.writes + 1 ELSE @.writes,
      by |-> @.by \cup {who}]]

\* Context.set or Context.__setitem__ called by a worker that is not
\* blocked in a get
CtxSet(w, k, v) ==
  /\ getter[w].step # "waiting"
  /\ shared_dict' = dict_set(shared_dict, k, v)
  /\ last_write' = Written(k, v, "worker")
  /\ UNCHANGED << shared_queue, getter >>
  /\ context_frame

\* Context.get(key) without a default called by a worker: in interactive mode
\* with the key missing it puts the key on the queue and starts to wait,
\* otherwise it returns shared_dict.get(key, None)
CtxGet(w, k) ==
  /\ getter[w].step # "waiting"
  /\ IF interactive /\ shared_dict[k] = MISSING
       THEN /\ shared_queue' = Append(shared_queue, k)
            /\ getter' = [getter EXCEPT ![w] =
                 [step |-> "waiting", key |-> k, value |-> MISSING,
                  asked |-> TRUE]]
       ELSE /\ getter' = [getter EXCEPT ![w] =
                 [step |-> "returned", key |-> k, value |-> shared_dict[k],
                  asked |-> FALSE]]
            /\ UNCHANGED shared_queue
  /\ UNCHANGED << shared_dict, last_write >>
  /\ context_frame

\* a get that goes on without looking whether the key has arrived
CtxWake_NoWait(w) ==
  /\ getter[w].step = "waiting"
  /\ getter' = [getter EXCEPT ![w].step = "returned",
                              ![w].value = shared_dict[getter[w].key]]
  /\ UNCHANGED << shared_dict, shared_queue, last_write >>
  /\ context_frame

\* the loop "while key not in self.shared_dict: time.sleep(0.5)" ends, and
\* get returns self.shared_dict.get(key, default)
CtxWake(w) ==
  /\ getter[w].step = "waiting"
  /\ shared_dict[getter[w].key] # MISSING
  /\ getter' = [getter EXCEPT ![w].step = "returned",
                              ![w].value = shared_dict[getter[w].key]]
  /\ UNCHANGED << shared_dict, shared_queue, last_write >>
  /\ context_frame

\* one round of the loop of the tick of execute() that empties the queue:
\* key = shared_queue.get(), value = input(...), context.set(key, value)
ServiceRequest(v) ==
  /\ shared_queue # << >>
  /\ shared_queue' = Tail(shared_queue)
  /\ shared_dict' = dict_set(shared_dict, Head(shared_queue), v)
  /\ last_write' = Written(Head(shared_queue), v, "controller")
  /\ UNCHANGED getter
  /\ context_frame

\* ------------------------------------------ a node and its worker process
\* what a lifecycle method of a Worker subclass does when it is called: the
\* method of the base class raises NotImplementedError; one the subclass
\* defines raises another exception, returns nothing, returns a positive
\* code, or returns something the retcode setter refuses (a negative number,
\* or a value int() cannot convert)
Behaviours == {"NotImplementedError", "Exception", "None", "1", "2", "invalid"}

\* the value a method hands to "step() or self.retcode"
returned(b) == IF b = "1" THEN 1 ELSE IF b = "2" THEN 2 ELSE 0

\* Worker._try_exec(step, name, rc): self.retcode afterwards, cur being its
\* value before. No call of protected_run passes required, so that a
\* NotImplementedError of any step is dropped
try_exec(cur, b, rc) ==
  IF b = "NotImplementedError" THEN cur
  ELSE IF b \in {"Exception", "invalid"} THEN rc
  ELSE IF returned(b) # 0 THEN returned(b)
  ELSE cur

\* all but the fields of node n, its worker process and the blocking poll
worker_frame ==
  UNCHANGED << config_vars, since_launch,
               impl, user_hooks, hook_func, invoked, sig_op,
               sig_ret, shared_dict, shared_queue, getter, last_write,
               interactive, startup_vars, save_vars, restart, perm, register, elapsed,
               wait_until, signals, pc, todo, result, error, ctllog,
               last_save, aborted_run, revives, runs, launches >>

\* ExecutionNode.execute() called on a node directly, as the tests do;
\* spawned tells whether the try block got a process started
NodeExecute(n, spawned) ==
  /\ pc = "init" /\ runs = 0
  /\ wpos = "idle" /\ attempts[n] = 0
  /\ is_runnable(n)
  /\ attempts' = [attempts EXCEPT ![n] = @ + 1]
  /\ started' = [started EXCEPT ![n] = TRUE]
  /\ IF spawned
       THEN /\ proc' = [proc EXCEPT ![n] = "alive"]
            /\ retcode' = [retcode EXCEPT ![n] = 0]
            /\ wpos' = "on_start"
       ELSE UNCHANGED << proc, retcode, wpos >>
  /\ UNCHANGED << calls, poll_rc, node_wait >>
  /\ worker_frame

\* protected_run: self._try_exec(self.on_start, "ON_START", 902)
TryOnStart(n) ==
  /\ wpos = "on_start"
  /\ calls' = Append(calls, "on_start")
  /\ retcode' = [retcode EXCEPT ![n] = try_exec(@, impl["on_start"], 902)]
  /\ wpos' = "run"
  /\ UNCHANGED << attempts, started, proc, poll_rc, node_wait >>
  /\ worker_frame

\* protected_run: self._try_exec(self.run, "RUN", 903)
TryRun(n) ==
  /\ wpos = "run"
  /\ calls' = Append(calls, "run")
  /\ retcode' = [retcode EXCEPT ![n] = try_exec(@, impl["run"], 903)]
  /\ wpos' = "after_run"
  /\ UNCHANGED << attempts, started, proc, poll_rc, node_wait >>
  /\ worker_frame

\* protected_run, the branch on "not self.retcode": the step labelled
\* ON_SUCCESS is given self.on_start, the step labelled ON_FAIL self.on_fail
TryOnSuccessOrFail(n) ==
  /\ wpos = "after_run"
  /\ IF retcode[n] = 0
       THEN /\ calls' = Append(calls, "on_start")
            /\ retcode' =
                 [retcode EXCEPT ![n] = try_exec(@, impl["on_start"], 904)]
       ELSE /\ calls' = Append(calls, "on_fail")
            /\ retcode' =
                 [retcode EXCEPT ![n] = try_exec(@, impl["on_fail"], 905)]
  /\ wpos' = "on_destroy"
  /\ UNCHANGED << attempts, started, proc, poll_rc, node_wait >>
  /\ worker_frame

\* protected_run, the step labelled ON_DESTROY, given self.on_start; the
\* process ends after it
TryOnDestroy(n) ==
  /\ wpos = "on_destroy"
  /\ calls' = Append(calls, "on_start")
  /\ retcode' = [retcode EXCEPT ![n] = try_exec(@, impl["on_start"], 906)]
  /\ wpos' = "done"
  /\ proc' = [proc EXCEPT ![n] = "dead"]
  /\ UNCHANGED << attempts, started, poll_rc, node_wait >>
  /\ worker_frame

\* ExecutionNode.poll(wait=True): the value returned once join() is over
poll_wait(n) ==
  IF proc[n] = "none" THEN RC_NO_PROC
  ELSE IF RetryPending(n) THEN 0 - 1
  ELSE retcode[n]

\* the blocking poll after execute(): without a process it returns at once,
\* with one it returns when the process has ended
PollWait(n) ==
  /\ attempts[n] = 1
  /\ \/ wpos = "idle" /\ proc[n] = "none"
     \/ wpos = "done"
  /\ poll_rc' = poll_wait(n)
  /\ node_wait' = IF proc[n] # "none" /\ RetryPending(n)
                    THEN [node_wait EXCEPT ![n] = retry_wait_time[n]]
                    ELSE node_wait
  /\ proc' = [proc EXCEPT ![n] = "none"]
  /\ wpos' = "polled"
  /\ UNCHANGED << attempts, started, retcode, calls >>
  /\ worker_frame

\* ---------------------------------------------------------- scheduling
\* The controller keeps taking the steps of its loop, and a worker process
\* that is alive ends at some tick boundary: it is looked at only there, so
\* its exit is enabled only there and has to be strongly fair.
Fairness ==
  /\ WF_vars(Controller)
  /\ \A n \in 1..NumNodes :
        SF_vars(\E rc \in WorkerCodes : WorkerExit(n, rc))

\* a run without signals and without excluded nodes, under every profile
InitFair ==
  /\ num_nodes = NumNodes
  /\ \E pn \in DagParents, pf \in Profiles :
     InitState(pn, Uniform(pf[1]), Uniform(pf[2]), Uniform(pf[3]),
               Uniform("any"), pf[4], pf[5], {}, {})

SpecFair == InitFair /\ [][NextQuiet]_vars /\ Fairness

\* a run without signals, then a restart from its checkpoint
NextRestart == NextQuiet \/ Restart

SpecRestart == InitFair /\ [][NextRestart]_vars

\* the state before any invocation has started, with the marker files an
\* earlier run may have left
InitStartup ==
  /\ num_nodes = NumNodes
  /\ \E stale \in SUBSET {SIG_ABORT, SIG_PULSE, SIG_REVIVE} :
     InitState(Uniform({ROOT_ID}), Uniform(1), Uniform(0), Uniform(0),
               Uniform("SayHello"), 0 - 1, 0, {}, stale)

SpecStartup == InitStartup /\ [][NextStartup]_vars

\* time passes, a sleep that is over is followed by the check, the check by
\* consume_all
FairnessStartup ==
  /\ WF_vars(Elapse)
  /\ \A i \in Invocations : WF_vars(PulseCheck(i) \/ ConsumeAll(i))

SpecSequential == InitStartup /\ [][NextSequential]_vars /\ FairnessStartup

\* a scheduler started while an ABORT marker, and possibly others, of an
\* earlier instance is still in place; nobody emits a signal during the run
InitStale ==
  /\ num_nodes = NumNodes
  /\ \E pn \in DagParents, pf \in Profiles,
     stale \in SUBSET {SIG_ABORT, SIG_PULSE, SIG_REVIVE} :
       /\ SIG_ABORT \in stale
       /\ InitState(pn, Uniform(pf[1]), Uniform(pf[2]), Uniform(pf[3]),
                    Uniform("any"), pf[4], pf[5], {}, stale)

SpecStale == InitStale /\ [][NextQuiet]_vars

\* an application that registers job hooks, then calls execute()
SpecHooks ==
  /\ InitFair
  /\ [][ \/ NextQuiet
         \/ \E h \in {"on_success", "on_fail", "on_destroy"} :
               RegisterHook(h) ]_vars
  /\ Fairness

\* a launch interval of one tick or more, retries, no cap and no timeout
SpecThrottle ==
  /\ \E ma \in 1..MaxAttempts, rw \in 0..MaxRetryWait,
        tbt \in 1..(MaxTimeBetweenTasks + 1) :
          /\ num_nodes = NumNodes
          /\ \E pn \in DagParents :
                InitState(pn, Uniform(ma), Uniform(rw), Uniform(0),
                          Uniform("any"), 0 - 1, tbt, {}, {})
  /\ [][NextQuiet]_vars
  /\ Fairness

\* a run without signals that Ctrl-C may interrupt at any point of the loop
SpecCtrlC ==
  /\ InitFair
  /\ [][ \/ NextQuiet
         \/ KeyboardInterrupt
         \/ \E n \in Nodes : InterruptedLaunch(n)
         \/ \E n \in Nodes : AbortNode(n)
         \/ AbortDone ]_vars

\* invocations started with or without allow_duplicate_jobs in the
\* configuration
SpecOverride ==
  /\ \E stale \in SUBSET ValidSignals, allow \in BOOLEAN :
        /\ num_nodes = NumNodes
        /\ InitProgram(Uniform({ROOT_ID}), Uniform(1), Uniform(0), Uniform(0),
                       Uniform("SayHello"), 0 - 1, 0, {}, stale)
        /\ InitLibrary([m \in WorkerMethods |->
                          IF m = "run" THEN "None" ELSE "NotImplementedError"],
                       FALSE)
        /\ allow_duplicate_jobs = allow
  /\ [][NextStartup]_vars

\* workers that fail or hang, a timeout of two ticks or more, retries, a cap
\* on the workers, and REVIVE signals from outside
SpecTimeout ==
  /\ \E ma \in 1..MaxAttempts, rw \in 0..MaxRetryWait,
        to \in 2..(MaxTimeout + 1) :
          /\ num_nodes = NumNodes
          /\ \E pn \in DagParents :
                InitState(pn, Uniform(ma), Uniform(rw), Uniform(to),
                          Uniform("FailMe"), MaxProcs, 0, {}, {})
  /\ [][NextQuiet \/ EmitRevive]_vars

\* a run without signals whose workers may be killed from outside
SpecKilled ==
  /\ InitFair
  /\ [][NextQuiet \/ \E n \in Nodes : WorkerKilled(n)]_vars

\* one node more: a chain whose inner nodes may be excluded, next to a node
\* without parents or children; a cap on the workers, retries, and REVIVE
\* signals from outside
SpecSideNode ==
  /\ \E ma \in 1..MaxAttempts :
        /\ num_nodes = NumNodes + 1
        /\ \E norun \in SUBSET (2..NumNodes) :
              InitState([n \in Nodes |->
                           IF n = 1 \/ n = num_nodes THEN {ROOT_ID}
                           ELSE {n - 1}],
                        Uniform(ma), Uniform(0), Uniform(0), Uniform("any"),
                        MaxProcs, 0, norun, {})
  /\ [][NextQuiet \/ EmitRevive]_vars

\* a single root node with the settings of the defaults; im tells what the
\* methods of its Worker class do and i whether -i was given
InitAlone(ma, rw, im, i) ==
  /\ num_nodes = NumNodes
  /\ InitProgram(Uniform({ROOT_ID}), Uniform(ma), Uniform(rw), Uniform(0),
                 Uniform("any"), 0 - 1, 0, {}, {})
  /\ InitLibrary(im, i)
  /\ allow_duplicate_jobs = FALSE

\* independent processes that call the SignalHandler of one job name, from a
\* directory without marker files
SpecSigOps ==
  /\ InitAlone(1, 0, [m \in WorkerMethods |->
                        IF m = "run" THEN "None" ELSE "NotImplementedError"],
               FALSE)
  /\ [][ \E p \in 1..NumSigProcs :
            \/ \E sig \in ValidSignals : SigEmit(p, sig)
            \/ \E sig \in ValidSignals : ConsumePeek(p, sig)
            \/ ConsumeAllPeek(p)
            \/ \E sig \in ValidSignals : SigRemove(p, sig) ]_vars

\* workers that read and write the Context while the controller ticks, with
\* -i given or not. The loop of execute() comes to the queue at every tick
\* as long as a worker runs, and a worker that waits in get looks at the
\* dict every half second
SpecContext ==
  /\ \E i \in BOOLEAN :
        InitAlone(1, 0, [m \in WorkerMethods |-> "None"], i)
  /\ [][ \/ \E w \in 1..NumCtxWorkers, k \in 1..NumKeys,
               v \in 1..NumValues : CtxSet(w, k, v)
         \/ \E w \in 1..NumCtxWorkers, k \in 1..NumKeys : CtxGet(w, k)
         \/ \E w \in 1..NumCtxWorkers : CtxWake(w)
         \/ \E v \in 1..NumValues : ServiceRequest(v) ]_vars
  /\ WF_vars(\E v \in 1..NumValues : ServiceRequest(v))
  /\ \A w \in 1..NumCtxWorkers : WF_vars(CtxWake(w))

\* execute() and a blocking poll on a single root node of any max_attempts
\* whose Worker class defines its lifecycle methods in any way
SpecWorker ==
  /\ \E ma \in 1..MaxAttempts, rw \in 0..MaxRetryWait,
        im \in [WorkerMethods -> Behaviours] : InitAlone(ma, rw, im, FALSE)
  /\ [][ \E n \in {1} :
            \/ \E spawned \in BOOLEAN : NodeExecute(n, spawned)
            \/ TryOnStart(n)
            \/ TryRun(n)
            \/ TryOnSuccessOrFail(n)
            \/ TryOnDestroy(n)
            \/ PollWait(n) ]_vars

\* save_state called again and again on the graph as loaded
SpecSave == InitFair /\ [][NextSave]_vars

\* every worker is FailMe; no timeout, no launch interval, no excluded node
InitFail ==
  /\ num_nodes = NumNodes
  /\ \E pn \in DagParents, ma \in 1..(MaxAttempts + 1), rw \in 0..MaxRetryWait,
     mp \in {0 - 1, 1} :
       InitState(pn, Uniform(ma), Uniform(rw), Uniform(0), Uniform("FailMe"),
                 mp, 0, {}, {})

SpecFail == InitFail /\ [][NextQuiet]_vars /\ Fairness

\* the chain 1 -> 2 -> 3 whose first node fails twice and then succeeds, with
\* three attempts allowed to it and one to the others
ChainParents == [n \in Nodes |-> IF n = 1 THEN {ROOT_ID} ELSE {n - 1}]

InitChain ==
  /\ num_nodes = NumNodes
  /\ \E rw \in 0..MaxRetryWait, mp \in (0 - 1)..MaxProcs :
     InitState(ChainParents,
               [n \in Nodes |-> IF n = 1 THEN 3 ELSE 1],
               Uniform(rw), Uniform(0),
               [n \in Nodes |-> IF n = 1 THEN "FailTwice" ELSE "SayHello"],
               mp, 0, {}, {})

SpecChain == InitChain /\ [][NextQuiet]_vars /\ Fairness

\* node 1 fails in the first run of every graph; REVIVE is emitted between
\* two calls of execute()
InitRevive ==
  /\ num_nodes = NumNodes
  /\ \E pn \in DagParents, mp \in {0 - 1, 1} :
     InitState(pn, Uniform(1), Uniform(0), Uniform(0),
               [n \in Nodes |-> IF n = 1 THEN "FailFirstRun" ELSE "SayHello"],
               mp, 0, {}, {})

NextRevive == Workers \/ Controller \/ EmitReviveIdle \/ Rerun

SpecRevive == InitRevive /\ [][NextRevive]_vars

\* ================================================================ claims

\* C1: a node goes from PENDING to RUNNING only in a step in which every one
\* of its parents with id >= 0 is in COMPLETED or NORUN.
C1_LaunchOnlyWhenParentsDone ==
  [][ \A n \in Nodes :
        (n \in pending_nodes /\ n \in running_nodes')
        => \A p \in parent_nodes[n] :
              p >= 0 => p \in (completed_nodes \cup norun_nodes) ]_vars

\* a node with a completed and an excluded parent has been launched
C1_Witness ==
  \E n \in running_nodes :
     \E p, q \in parent_nodes[n] : p \in completed_nodes /\ q \in norun_nodes

\* C2: at every tick boundary, and when the loop has ended or the abort path
\* has returned, the seven status sets are pairwise disjoint and their union
\* is the set of registered nodes.
C2_StatusSetsPartition ==
  pc \in {"loop", "finish", "returned"} =>
    /\ \A s, t \in Statuses : s # t => register[s] \cap register[t] = {}
    /\ UNION { register[s] : s \in Statuses } = Nodes

\* a tick boundary of a live loop after a REVIVE was processed and a node has
\* failed again, with its descendant defaulted by the cascade
C2_Witness ==
  /\ pc = "loop"
  /\ revives > 0 /\ SIG_REVIVE \notin signals
  /\ failed_nodes # {} /\ defaulted_nodes # {} /\ running_nodes # {}
  /\ \E n \in failed_nodes : launches[n] > max_attempts[n]

\* C3: with max_procs > 0 the number of RUNNING nodes never exceeds max_procs;
\* with max_procs <= 0 the launch loop is never stopped by the cap.
C3_CapRespected ==
  /\ max_procs > 0 => Cardinality(running_nodes) <= max_procs
  /\ (max_procs <= 0 /\ pc = "launch" /\ todo # {} /\ wait_until = 0)
       => ENABLED (\E n \in Nodes, spawned \in BOOLEAN : LaunchNode(n, spawned))

\* the cap is reached while a node whose parents are done is still pending
C3_Witness ==
  /\ max_procs > 0
  /\ Cardinality(running_nodes) = max_procs
  /\ pc = "post"
  /\ \E n \in pending_nodes :
        /\ node_wait[n] = 0
        /\ \A p \in parent_nodes[n] :
              p >= 0 => p \in (completed_nodes \cup norun_nodes)

\* C5: in the step in which a node x becomes FAILED, every strict descendant
\* of x that is not COMPLETED becomes DEFAULTED, a COMPLETED descendant stays
\* COMPLETED, and no node outside x and its descendants changes its status.
C5_FailureCascade ==
  [][ \A x \in Nodes :
        (x \notin failed_nodes /\ x \in failed_nodes')
        => /\ \A d \in Descendants(x) :
                IF d \in completed_nodes
                  THEN d \in completed_nodes'
                  ELSE d \in defaulted_nodes'
           /\ \A m \in Nodes \ (Descendants(x) \cup {x}) :
                \A s \in Statuses : (m \in register[s]) <=> (m \in register'[s])
    ]_vars

\* a failed node with a defaulted descendant that is not its child
C5_Witness ==
  \E x \in failed_nodes :
     \E d \in Descendants(x) \ child_nodes(x) : d \in defaulted_nodes

\* C4: a node whose worker fails with a positive code on every attempt never
\* has more attempts than max_attempts; when poll takes it out of RUNNING it
\* reports the retry sentinel -1 and the node goes back to PENDING as long as
\* attempts < max_attempts, and reports a positive code and the node goes to
\* FAILED otherwise; a FAILED node has been started exactly max_attempts
\* times; and a node that is RUNNING is eventually FAILED.
C4_AlwaysFailingNode ==
  /\ [](\A n \in Nodes :
          /\ attempts[n] <= max_attempts[n]
          /\ n \in failed_nodes
               => attempts[n] = max_attempts[n] /\ launches[n] = max_attempts[n])
  /\ [][ \A n \in Nodes :
           (n \in running_nodes /\ n \notin running_nodes')
           => IF attempts[n] < max_attempts[n]
                THEN poll(n) = 0 - 1 /\ n \in pending_nodes'
                ELSE poll(n) > 0 /\ n \in failed_nodes' ]_vars
  /\ \A n \in 1..NumNodes : (n \in running_nodes) ~> (n \in failed_nodes)

\* a node allowed more than one attempt has failed for good
C4_Witness ==
  \E n \in failed_nodes : max_attempts[n] > 1 /\ attempts[n] = max_attempts[n]

\* C6: a run in which the ABORT marker was consumed ends by returning -1 with
\* the checkpoint written by the abort path, no node left RUNNING and no
\* descendant of an ABORTED node left PENDING.
C6_AbortOutcome ==
  (aborted_run /\ pc \in {"returned", "raised"})
  => /\ pc = "returned"
     /\ result = 0 - 1
     /\ ctllog = "abort"
     /\ running_nodes = {}
     /\ \A n \in aborted_nodes : Descendants(n) \cap pending_nodes = {}

\* C7: execute() ends by returning; the result is -1 exactly when the run was
\* aborted, and otherwise PENDING and RUNNING are empty and the result is the
\* number of FAILED nodes.
C7_RunResult ==
  pc \in {"returned", "raised"}
  => /\ pc = "returned"
     /\ (result = 0 - 1) <=> aborted_run
     /\ ~ aborted_run
          => /\ pending_nodes = {}
             /\ running_nodes = {}
             /\ result = Cardinality(failed_nodes)

\* C8: when every worker eventually exits and no ABORT is emitted, the loop
\* eventually finds PENDING and RUNNING both empty.
C8_LoopTerminates ==
  <>(pending_nodes = {} /\ running_nodes = {})

\* C9: in the chain whose first node fails twice and succeeds on attempt 3 of
\* 3, a node going back from RUNNING to PENDING leaves FAILED and DEFAULTED as
\* they are; the loop eventually ends; and when it has ended every node is
\* COMPLETED, the first node has 3 attempts and every other node was launched
\* exactly once.
C9_RetryThenChainCompletes ==
  /\ [][ \A n \in Nodes :
           (n \in running_nodes /\ n \in pending_nodes')
           => /\ defaulted_nodes' = defaulted_nodes
              /\ failed_nodes' = failed_nodes ]_vars
  /\ [](pc \in {"finish", "returned", "raised"}
          => /\ completed_nodes = Nodes
             /\ attempts[1] = 3
             /\ \A n \in Nodes \ {1} : launches[n] = 1)
  /\ <>(pc = "finish")

\* the loop of the chain has ended after the third attempt of the first node
C9_Witness ==
  /\ pc = "finish"
  /\ completed_nodes = Nodes
  /\ attempts[1] = 3 /\ launches[1] = 3

\* C10: when REVIVE was emitted after a run that left FAILED and DEFAULTED
\* nodes, the loop of the next run, whose workers all succeed, ends with
\* every node COMPLETED.
C10_ReviveThenRerun ==
  (revives > 0 /\ runs > 1 /\ pc = "finish") => completed_nodes = Nodes

\* C19: a node taken out of RUNNING because its worker exceeded the timeout
\* goes back to PENDING when attempts < max_attempts and to FAILED only
\* otherwise.
C19_TimeoutRetried ==
  [][ \A n \in Nodes :
        (pc = "poll" /\ n \in running_nodes /\ n \notin running_nodes'
           /\ proc[n] = "alive" /\ TimedOut(n))
        => IF attempts[n] < max_attempts[n]
             THEN n \in pending_nodes'
             ELSE n \in failed_nodes' ]_vars

C18_CheckpointLifecycle ==
  pc \in {"returned", "raised"}
  => /\ (~ aborted_run /\ ~ LoopActive /\ failed_nodes = {})
          => ctllog = "absent"
     /\ (aborted_run \/ failed_nodes # {}) => ctllog # "absent"


\* C17: once a first save_state has run to its end, the permanent path of
\* each checkpoint holds a complete file at every point of a later save and
\* after a crash at any point of it
C17_AtomicRewrite ==
  saves >= 1 => \A f \in CheckpointFiles : perm[f].exists /\ perm[f].complete


\* C15: for every graph state, the graph loaded back from the checkpoint that
\* save_state writes has the ids, the edges, the statuses and the attempt
\* counts of the graph that was saved
C15_RoundTripExact ==
  LET g == load(dump(register, FALSE), FALSE)
  IN  /\ DOMAIN g.parent_nodes = registered(register)
      /\ \A n \in registered(register) : g.parent_nodes[n] = parent_nodes[n]
      /\ g.register = register
      /\ \A n \in registered(register) : g.attempts[n] = attempts[n]

\* the step in which a restart invocation takes the place of the process
\* that wrote the checkpoint at its end
RestartStep ==
  /\ pc \in {"returned", "raised"}
  /\ ctllog \in {"final", "abort"}
  /\ pc' = "init"
  /\ restart'

\* C14: the process started by a restart invocation has the graph of the
\* checkpoint, with the nodes that were COMPLETED when it was written still
\* COMPLETED, and launches no COMPLETED node
C14_ResumeFromCheckpoint ==
  /\ [][ RestartStep
           => /\ registered(register') = DOMAIN perm["ctllog"].lines
              /\ completed_nodes \subseteq completed_nodes' ]_vars
  /\ [][ restart => \A n \in completed_nodes : n \notin running_nodes' ]_vars

\* C16: in a restart without a revive request the nodes that were FAILED,
\* DEFAULTED or ABORTED when the checkpoint was written have that status in
\* the new process, and none of them is PENDING or RUNNING
C16_RestartKeepsFailed ==
  [][ RestartStep
        => \A s \in {STATUS_FAILED, STATUS_DEFAULTED, STATUS_ABORTED} :
              register[s] \subseteq register'[s] ]_vars


\* C11: when an invocation ends the sleep of its pulse check and another
\* invocation has been in its tick loop for the whole time of that check,
\* the check raises the duplicate-run error; an invocation that has raised it
\* never enters the tick loop
C11_DuplicateRefused ==
  /\ [][ \A i \in Invocations :
           ( /\ inv[i] = "sleeping" /\ inv'[i] # "sleeping"
             /\ \E j \in Invocations \ {i} :
                   inv[j] = "ticking" /\ uptime[j] >= DupWait )
           => inv'[i] = "dup" ]_vars
  /\ [][ \A i \in Invocations : inv[i] = "dup" => inv'[i] = "dup" ]_vars

\* C13: at most one invocation is inside its tick loop at any time
C13_AtMostOneTicking ==
  Cardinality({ i \in Invocations : inv[i] = "ticking" }) <= 1

\* C12: an invocation started while no other one is alive finds PULSE at the
\* end of its sleep, raises no duplicate-run error, and goes on into its
\* tick loop
C12_StartAfterExit ==
  /\ [][ \A i \in Invocations :
           (inv[i] = "sleeping" /\ inv'[i] # "sleeping")
           => (SIG_PULSE \in signals /\ inv'[i] = "checked") ]_vars
  /\ [] (\A i \in Invocations : inv[i] # "dup")
  /\ \A i \in Invocations : (inv[i] = "sleeping") ~> (inv[i] = "ticking")

\* an invocation is in its tick loop after an earlier one has run and exited
C12_Witness ==
  \E i, j \in Invocations : inv[i] = "ticking" /\ inv[j] = "exited"


\* C29: a node leaves RUNNING for FAILED only with a positive code and an
\* attempt counter that has reached max_attempts, and every FAILED node has
\* attempts >= max_attempts
C29_FailedOnlyWhenExhausted ==
  /\ [][ \A n \in Nodes :
           (n \in running_nodes /\ n \notin failed_nodes /\ n \in failed_nodes')
           => (poll(n) > 0 /\ attempts[n] >= max_attempts[n]) ]_vars
  /\ [] (\A n \in failed_nodes : attempts[n] >= max_attempts[n])

\* C30: while the retry wait of a PENDING node has not elapsed, no step
\* launches it: it stays PENDING, its attempt counter is unchanged and no
\* process is spawned for it
C30_NoLaunchBeforeRetryWait ==
  [][ \A n \in Nodes :
        (n \in pending_nodes /\ node_wait[n] > 0)
        => /\ n \in pending_nodes' /\ n \notin running_nodes'
           /\ attempts'[n] = attempts[n]
           /\ proc'[n] = proc[n]
           /\ launches'[n] = launches[n] ]_vars

\* the launch loop has visited, and left PENDING, a node that failed an
\* attempt and whose retry wait has not elapsed
C30_Witness ==
  \E n \in pending_nodes :
     /\ pc = "launch" /\ n \notin todo
     /\ node_wait[n] > 0 /\ attempts[n] >= 1 /\ attempts[n] < max_attempts[n]


\* C24: the step from startup to the loop leaves no marker behind, and a run
\* that started with a stale ABORT in place and receives no signal never
\* takes the abort path
C24_StaleSignalsCleared ==
  /\ [][ (pc = "init" /\ pc' = "loop") => signals' = {} ]_vars
  /\ [] (pc # "abort" /\ ~ aborted_run)

\* the first tick of a run that found a stale ABORT at its start is under
\* way, and workers have been launched
C24_Witness ==
  /\ runs = 1 /\ pc = "post" /\ running_nodes # {}
  /\ signals = {} /\ ~ aborted_run


\* C28: the exit status of a run that returned, with its count of failed
\* nodes or after an abort, is none of the statuses of the error categories
C28_ExitStatusDistinct ==
  pc = "returned" => exit_status \notin ErrorStatuses

\* C22: inside a worker process the steps run in the order on_start, run,
\* then on_success if the return code is 0 after run and on_fail if it is
\* not, then on_destroy on every run
C22_LifecycleOrder ==
  [][ /\ wpos = "on_start" => calls' = Append(calls, "on_start")
      /\ wpos = "run" => calls' = Append(calls, "run")
      /\ wpos = "after_run" =>
           calls' = Append(calls, IF retcode[1] = 0 THEN "on_success"
                                                    ELSE "on_fail")
      /\ wpos = "on_destroy" => calls' = Append(calls, "on_destroy") ]_vars

\* C21: for a node of max_attempts 1 whose process started, the blocking
\* poll after execute() returns a value, which is 0 when run succeeds, the
\* code of run when run returns a positive one, and a positive code when run
\* raises; the first two for a Worker whose other methods neither return a
\* code nor raise
C21_PollReturnsOutcome ==
  LET silent == \A h \in WorkerMethods \ {"run"} :
                   impl[h] \in {"NotImplementedError", "None"}
  IN (wpos = "polled" /\ max_attempts[1] = 1 /\ calls # << >>) =>
       /\ poll_rc # RC_NONE
       /\ (silent /\ impl["run"] = "None") => poll_rc = 0
       /\ (silent /\ returned(impl["run"]) > 0) =>
             poll_rc = returned(impl["run"])
       /\ impl["run"] \in {"NotImplementedError", "Exception"} => poll_rc > 0

\* C23: in a run that is not aborted, once the code after the loop has run,
\* the function registered with on_success has been called if FAILED is
\* empty, the one registered with on_fail if it is not, and the one
\* registered with on_destroy in either case, after the other
C23_RegisteredHooksInvoked ==
  LET after_loop == IF failed_nodes = {} THEN "on_success" ELSE "on_fail"
      wanted == << after_loop, "on_destroy" >>
  IN (pc \in {"returned", "raised"} /\ ctllog = "final" /\ ~ aborted_run) =>
       /\ Len(invoked) = 2
       /\ \A i \in 1..2 :
            /\ invoked[i][1] = wanted[i]
            /\ wanted[i] \in user_hooks => invoked[i][2] = "user"

\* C25: whatever the interleaving of emit, consume and consume_all, no call
\* fails because another process has removed the marker first
C25_ConsumeNeverFails ==
  \A p \in 1..NumSigProcs : sig_ret[p].value # "FileNotFoundError"

C31_LaunchesApart ==
  [][ (running_nodes' \ running_nodes # {})
        => /\ since_launch >= time_between_tasks
           /\ Cardinality(running_nodes' \ running_nodes) = 1 ]_vars

\* a node that is ready is held back by the launch of another node
C31_Witness ==
  \E n \in pending_nodes, m \in running_nodes :
     /\ pc = "launch" /\ n \in todo /\ m # n
     /\ ParentsDone(n) /\ is_runnable(n)
     /\ time_between_tasks > 0
     /\ since_launch < time_between_tasks
     /\ wait_until > 0

\* C39: with time_between_tasks > 0, every PENDING node whose parents are all
\* COMPLETED or NORUN is eventually launched
C39_ReadyNodeLaunched ==
  \A n \in 1..NumNodes :
     (n \in pending_nodes /\ ParentsDone(n)) ~> (n \in running_nodes)

\* C32: when a keyboard interrupt has ended the run, execute() has returned
\* -1, no worker process that the scheduler spawned is still alive, and every
\* node whose worker was terminated is ABORTED, also when the interrupt came
\* between the spawn and the recording of the node in RUNNING
C32_InterruptTerminatesAll ==
  (aborted_run /\ pc = "returned")
     => /\ result = 0 - 1
        /\ \A n \in Nodes : proc[n] # "alive"
        /\ running_nodes = {}

\* C33: when the configuration allows duplicate jobs, no startup ends with
\* the duplicate-run error: a pulse check that finds PULSE cleared lets the
\* invocation go on to the tick loop
C33_DuplicateOverridable ==
  allow_duplicate_jobs => \A i \in Invocations : inv[i] # "dup"

\* C34: a node excluded before the run is never launched: at no time,
\* whatever failure cascades and REVIVE signals the ticks have handled, is it
\* in PENDING or in RUNNING
C34_ExcludedNeverLaunched ==
  \A n \in exec_disable_list :
     /\ n \notin pending_nodes
     /\ n \notin running_nodes
     /\ attempts[n] = 0

\* C35: the attempt counter of every node is between 0 and max_attempts
C35_AttemptsBounded ==
  \A n \in Nodes : attempts[n] >= 0 /\ attempts[n] <= max_attempts[n]

\* C38: at a tick boundary a node with a live worker process is in RUNNING
C38_LiveProcessIsRunning ==
  pc = "loop" => \A n \in Nodes : proc[n] = "alive" => n \in running_nodes

\* C36: when the loop has ended with FAILED empty, and so whenever execute()
\* has returned 0, every node is in COMPLETED or NORUN: none is DEFAULTED,
\* ABORTED, PENDING or RUNNING
C36_CleanEndIsComplete ==
  ((pc = "finish" /\ failed_nodes = {}) \/ (pc = "returned" /\ result = 0))
     => /\ completed_nodes \cup norun_nodes = Nodes
        /\ defaulted_nodes = {}
        /\ aborted_nodes = {}
        /\ pending_nodes = {}
        /\ running_nodes = {}

\* the loop has ended without a failure after a REVIVE brought failed and
\* defaulted nodes back
C36_Witness ==
  /\ pc = "finish"
  /\ failed_nodes = {}
  /\ completed_nodes # {}
  /\ revives > 0
  /\ \E n \in completed_nodes : launches[n] > 1

\* C37: the time a node has run is counted from its first launch and is
\* never set back, by a retry or by a revive; and the poll of a live worker
\* terminates it and fails the node exactly when that time has reached the
\* timeout, whichever attempt the worker belongs to
C37_TimeoutFromFirstStart ==
  [][ \A n \in Nodes :
        /\ started[n] => started'[n] /\ elapsed'[n] >= elapsed[n]
        /\ (pc = "poll" /\ n \in todo /\ n \notin todo' /\ proc[n] = "alive")
             => IF elapsed[n] >= timeout[n]
                  THEN proc'[n] = "none" /\ n \in failed_nodes'
                  ELSE proc'[n] = "alive" /\ n \in running_nodes' ]_vars

\* a worker launched after a revive has been terminated by the timeout:
\* its node is FAILED with attempts to spare
C37_Witness ==
  \E n \in failed_nodes :
     /\ revives > 0
     /\ launches[n] >= 2
     /\ attempts[n] < max_attempts[n]
     /\ elapsed[n] >= timeout[n]
     /\ proc[n] = "none"

\* C40: a node is moved to COMPLETED only when its worker process has run to
\* its end and left the return code 0; a worker that was killed before it
\* reported a code is not counted as COMPLETED
C40_CompletedOnlyAfterRun ==
  [][ \A n \in Nodes :
        (n \in completed_nodes' /\ n \notin completed_nodes)
           => proc[n] = "dead" /\ retcode[n] = 0 ]_vars

====
